---- MODULE Spec2Model ----
(***************************************************************************)
(* The streaming bridge of src/src/interpreter_bridge.py                   *)
(* (InterpreterBridge) together with the part of src/src/discord_bot.py    *)
(* that drives it (process_message and the /cancel command).               *)
(*                                                                         *)
(* One invocation of process_message_stream is a "stream": an async        *)
(* generator (the coalescer) plus the producer thread it starts.  The      *)
(* bridge's cancel_flag and output_queue are shared by all streams.        *)
(*                                                                         *)
(* Text is a sequence of tokens; the text of the n-th unit the engine      *)
(* yields in stream i is the one-token string << <<i, n>> >>, so that      *)
(* ''.join is sequence concatenation and the origin of every piece of      *)
(* emitted content can be read off the content itself.  A dict payload is  *)
(* a content with dict = TRUE.                                             *)
(***************************************************************************)
EXTENDS Integers, Sequences, FiniteSets, TLC

\* ------------------------------------------------------------------ bounds
MaxUnits    == 3    \* engine units per stream, one stream, any kinds
MaxRun      == 12   \* engine units per stream, one stream, one kind
MaxUnitsTwo == 2    \* engine units per stream, two streams
MaxLate     == 1    \* chunks of a uniform run taken after an expiry
MaxUnitsFail == 3   \* engine units per stream, contents of any type
MaxInvocations == 5 \* successive invocations on a bridge without interpreter
MaxUnitsLive == 2   \* engine units per stream, one stream under fair scheduling
MaxUnitsFault == 2  \* engine units per stream, one stream with queue faults
MaxFaults == 2      \* faults of the queue read per stream
MaxUnitsPoll == 1   \* engine units per stream, two concurrent streams
MaxUnitsScope == 2  \* engine units per stream, two streams, the second after a /cancel
MaxUnitsBot == 3    \* engine units per stream, one stream consumed by the bot

\* ------------------------------------------------------- program constants
FlushCount == 10    \* len(accumulated_content) > 10

\* ----------------------------------------------------------- constants.py
CODE         == "code"
CONSOLE      == "console"
CONFIRMATION == "confirmation"
ERROR        == "error"
CANCELLED    == "cancelled"
MESSAGE      == "message"

None   == "None"
NoMeta == [format |-> None, role |-> None]

VARIABLES
    interpreter,      \* TRUE: self.interpreter is set; FALSE: it is None
    messages,         \* self.interpreter.messages, the conversation history
    cancel_flag,      \* self.cancel_flag (threading.Event)
    output_queue,     \* self.output_queue (queue.Queue), head first
    thread,           \* per stream: the producer thread (after_cancel: history)
    stream,           \* per stream: the generator's locals and position
    consumer,         \* per stream: who iterates the generator
    active_messages,  \* ProductivityBot.active_messages (its keys)
    engine_budget,    \* per stream: units the engine may still yield
    emitted,          \* history: per stream, the blocks yielded so far
    pushed,           \* history: per stream, the chunks its thread put
    prior_abnormal,   \* history: per stream, whether at its start the
                      \* previous stream's consumer had broken off
    cancel_reply      \* the message the /cancel command sent last

vars == << interpreter, messages, cancel_flag, output_queue, thread, stream, consumer,
           active_messages, engine_budget, emitted, pushed, prior_abnormal, cancel_reply >>

Streams == DOMAIN stream

\* ------------------------------------------------------------- dictionaries
\* A chunk or block is a Python dict; keys is the set of its keys.
\* A content is a str (str = TRUE), a dict (dict = TRUE) or another object.
Str(text) == [dict |-> FALSE, str |-> TRUE, text |-> text]
Text(tok) == Str(<< tok >>)
Payload(tok) == [dict |-> TRUE, str |-> FALSE, text |-> << tok >>]
Other(tok) == [dict |-> FALSE, str |-> FALSE, text |-> << tok >>]

Get(d, k, default) == IF k \in d.keys THEN d[k] ELSE default

\* The engine's output units (interpreter.chat(..., stream=True)).
\* payload: "text" a str content, "dict" a dict content, "other" a content that
\* is neither (None, a number, a list), "none" no content key.
AllUnits ==
    { [type |-> MESSAGE,      format |-> "text",        role |-> "assistant", payload |-> "text"],
      [type |-> CODE,         format |-> "python",      role |-> "assistant", payload |-> "text"],
      [type |-> CONSOLE,      format |-> "output",      role |-> "computer",  payload |-> "text"],
      [type |-> CONSOLE,      format |-> "active_line", role |-> "computer",  payload |-> "text"],
      [type |-> CONFIRMATION, format |-> "execution",   role |-> "computer",  payload |-> "dict"],
      [type |-> CONFIRMATION, format |-> "text",        role |-> "computer",  payload |-> "text"],
      [type |-> MESSAGE,      format |-> "text",        role |-> "assistant", payload |-> "other"],
      [type |-> MESSAGE,      format |-> "text",        role |-> "assistant", payload |-> "none"] }

\* A producer that forwards every unit with a content.
ForwardedAnyFormat(u) == u.payload # "none"

\* Whether a unit is put on the queue at all.
Forwarded(u) ==
    /\ u.payload # "none"
    /\ ~(u.type = CONSOLE /\ u.format = "active_line")

\* Units of the one-stream specification: two text kinds, both confirmation
\* shapes, both kinds of unit the producer drops; every content a str or a dict.
EngineUnits == { u \in AllUnits : u.type # CODE /\ u.payload # "other" }

\* Units of a uniform run: forwarded text chunks of one kind.
RunUnits == { u \in AllUnits : u.payload = "text" /\ Forwarded(u) }

\* Units of the specification with contents that cannot be joined.
FailUnits ==
    { u \in AllUnits : \/ u.type = MESSAGE /\ u.payload \in {"text", "other"}
                       \/ u.payload = "dict" }

\* Units used when two streams share the bridge.
TwoUnits ==
    { u \in AllUnits : \/ u.payload = "text" /\ u.type \in {MESSAGE, CODE}
                       \/ u.payload = "dict" }

\* Units used when two streams are in flight together: a text kind and the
\* confirmation payload.
PollUnits ==
    { u \in AllUnits : \/ u.payload = "text" /\ u.type = MESSAGE
                       \/ u.payload = "dict" }

\* Units of an invocation made by the bot: every kind of chunk the producer
\* puts, with a str or a dict content.
BotUnits == { u \in AllUnits : Forwarded(u) /\ u.payload # "other" }

UnitContent(u, tok) ==
    IF u.payload = "dict" THEN Payload(tok)
    ELSE IF u.payload = "other" THEN Other(tok)
    ELSE Text(tok)

\* ------------------------------------------------------------ the producer
\* The dict _run_interpreter_stream puts for an engine unit.
RawChunk(u, tok) ==
    [type |-> u.type, content |-> UnitContent(u, tok), role |-> u.role,
     format |-> u.format, keys |-> {"role", "type", "content", "format"},
     metadata |-> NoMeta]

\* The dict it puts when it sees the flag set, or catches an exception.
TerminalChunk(kind, tok) ==
    [type |-> kind, content |-> Text(tok), role |-> None, format |-> None,
     keys |-> {"type", "content"}, metadata |-> NoMeta]

Alive(t) == t.state \in {"running", "got", "cancelling", "returning"}

\* A producer that puts the cancelled chunk and stays in its loop.
ProducerNextNoBreak(i, u) ==
    /\ thread[i].state = "running"
    /\ engine_budget[i] > 0
    /\ engine_budget' = [engine_budget EXCEPT ![i] = @ - 1]
    /\ IF cancel_flag
       THEN /\ thread' = [thread EXCEPT ![i].n = @ + 1,
                                        ![i].after_cancel = Append(@, CANCELLED)]
            /\ output_queue' = Append(output_queue, TerminalChunk(CANCELLED, <<i, 0>>))
            /\ pushed' = [pushed EXCEPT ![i] = Append(@, TerminalChunk(CANCELLED, <<i, 0>>))]
       ELSE /\ thread' = [thread EXCEPT ![i].state = "got", ![i].n = @ + 1, ![i].unit = u]
            /\ UNCHANGED << output_queue, pushed >>
    /\ UNCHANGED << interpreter, messages, cancel_flag, stream, consumer, active_messages,
                    emitted, prior_abnormal, cancel_reply >>

\* A producer that never reads the flag.
ProducerNextIgnoresFlag(i, u) ==
    /\ thread[i].state = "running"
    /\ engine_budget[i] > 0
    /\ engine_budget' = [engine_budget EXCEPT ![i] = @ - 1]
    /\ thread' = [thread EXCEPT ![i].state = "got", ![i].n = @ + 1, ![i].unit = u]
    /\ UNCHANGED << interpreter, messages, cancel_flag, output_queue, stream, consumer, active_messages,
                    emitted, pushed, prior_abnormal, cancel_reply >>

\* `for chunk in self.interpreter.chat(...)` receives a unit, and the flag is
\* read: set, the cancelled chunk is put and the loop is left.
ProducerNext(i, u) ==
    /\ thread[i].state = "running"
    /\ engine_budget[i] > 0
    /\ engine_budget' = [engine_budget EXCEPT ![i] = @ - 1]
    /\ LET n == thread[i].n + 1 IN
       IF cancel_flag
       THEN /\ thread' = [thread EXCEPT ![i].state = "returning", ![i].n = n,
                                        ![i].after_cancel = Append(@, CANCELLED)]
            /\ output_queue' = Append(output_queue, TerminalChunk(CANCELLED, <<i, 0>>))
            /\ pushed' = [pushed EXCEPT ![i] = Append(@, TerminalChunk(CANCELLED, <<i, 0>>))]
       ELSE /\ thread' = [thread EXCEPT ![i].state = "got", ![i].n = n, ![i].unit = u]
            /\ UNCHANGED << output_queue, pushed >>
    /\ UNCHANGED << interpreter, messages, cancel_flag, stream, consumer, active_messages,
                    emitted, prior_abnormal, cancel_reply >>

\* The two steps ProducerNext takes as one when the flag is set.  The thread
\* receives a unit and reads the flag (cancel_flag.is_set()): set, it goes on
\* to put the cancelled chunk; clear, it holds the unit as in ProducerNext.
ProducerRead(i, u) ==
    /\ thread[i].state = "running"
    /\ engine_budget[i] > 0
    /\ engine_budget' = [engine_budget EXCEPT ![i] = @ - 1]
    /\ thread' = IF cancel_flag
                 THEN [thread EXCEPT ![i].state = "cancelling", ![i].n = @ + 1]
                 ELSE [thread EXCEPT ![i].state = "got", ![i].n = @ + 1, ![i].unit = u]
    /\ UNCHANGED << interpreter, messages, cancel_flag, output_queue, stream, consumer, active_messages,
                    emitted, pushed, prior_abnormal, cancel_reply >>

\* The thread that read the flag set puts the cancelled chunk, whatever the
\* flag says by now, and leaves the loop.
PutCancelled(i) ==
    /\ thread[i].state = "cancelling"
    /\ thread' = [thread EXCEPT ![i].state = "returning",
                                ![i].after_cancel = Append(@, CANCELLED)]
    /\ output_queue' = Append(output_queue, TerminalChunk(CANCELLED, <<i, 0>>))
    /\ pushed' = [pushed EXCEPT ![i] = Append(@, TerminalChunk(CANCELLED, <<i, 0>>))]
    /\ UNCHANGED << interpreter, messages, cancel_flag, stream, consumer, active_messages,
                    engine_budget, emitted, prior_abnormal, cancel_reply >>

\* History: the kinds of the chunks a thread put while the flag was set.
PutSeen(seen, c) == IF cancel_flag THEN Append(seen, c.type) ELSE seen

\* The unit that passed the flag test is filtered and put.
ProducerPut(i) ==
    /\ thread[i].state = "got"
    /\ LET c == RawChunk(thread[i].unit, <<i, thread[i].n>>) IN
       IF Forwarded(thread[i].unit)
       THEN /\ output_queue' = Append(output_queue, c)
            /\ pushed' = [pushed EXCEPT ![i] = Append(@, c)]
            /\ thread' = [thread EXCEPT ![i].state = "running",
                                        ![i].after_cancel = PutSeen(@, c)]
       ELSE /\ thread' = [thread EXCEPT ![i].state = "running"]
            /\ UNCHANGED << output_queue, pushed >>
    /\ UNCHANGED << interpreter, messages, cancel_flag, stream, consumer, active_messages,
                    engine_budget, emitted, prior_abnormal, cancel_reply >>

\* The engine's generator is exhausted: the thread function returns.
EngineDone(i) ==
    /\ thread[i].state = "running"
    /\ thread' = [thread EXCEPT ![i].state = "dead"]
    /\ UNCHANGED << interpreter, messages, cancel_flag, output_queue, stream, consumer,
                    active_messages, engine_budget, emitted, pushed, prior_abnormal, cancel_reply >>

\* A producer whose except clause puts nothing.
EngineRaiseSilent(i) ==
    /\ thread[i].state = "running"
    /\ thread' = [thread EXCEPT ![i].state = "returning", ![i].raised = TRUE]
    /\ UNCHANGED << interpreter, messages, cancel_flag, output_queue, stream, consumer,
                    active_messages, engine_budget, emitted, pushed, prior_abnormal, cancel_reply >>

\* The engine call raises: the error chunk is put.
EngineRaise(i) ==
    /\ thread[i].state = "running"
    /\ thread' = [thread EXCEPT ![i].state = "returning", ![i].raised = TRUE,
                                ![i].after_cancel = PutSeen(@, TerminalChunk(ERROR, <<i, 0>>))]
    /\ output_queue' = Append(output_queue, TerminalChunk(ERROR, <<i, 0>>))
    /\ pushed' = [pushed EXCEPT ![i] = Append(@, TerminalChunk(ERROR, <<i, 0>>))]
    /\ UNCHANGED << interpreter, messages, cancel_flag, stream, consumer, active_messages,
                    engine_budget, emitted, prior_abnormal, cancel_reply >>

\* After its last put the thread function returns.
ThreadExit(i) ==
    /\ thread[i].state = "returning"
    /\ thread' = [thread EXCEPT ![i].state = "dead"]
    /\ UNCHANGED << interpreter, messages, cancel_flag, output_queue, stream, consumer,
                    active_messages, engine_budget, emitted, pushed, prior_abnormal, cancel_reply >>

\* ----------------------------------------------------------- the coalescer
RECURSIVE JoinText(_)
\* ''.join(accumulated_content)
JoinText(acc) == IF acc = << >> THEN << >> ELSE Head(acc).text \o JoinText(Tail(acc))

\* str.join raises TypeError unless every item is a str.
Joinable(acc) == \A k \in 1..Len(acc) : acc[k].str

Metadata(chunk) ==
    [format |-> Get(chunk, "format", "text"), role |-> Get(chunk, "role", "assistant")]

\* {'type': ..., 'content': ''.join(...), 'metadata': ...}
BlockWithMetadata(kind, acc, meta) ==
    [type |-> kind, content |-> Str(JoinText(acc)),
     role |-> None, format |-> None, keys |-> {"type", "content", "metadata"},
     metadata |-> meta]

\* {'type': ..., 'content': ''.join(...)}
BlockBare(kind, acc) ==
    [type |-> kind, content |-> Str(JoinText(acc)),
     role |-> None, format |-> None, keys |-> {"type", "content"},
     metadata |-> NoMeta]

\* if current_type is None: adopt the chunk's type and metadata
Adopt(s, chunk) ==
    IF s.current_type = None
    THEN [s EXCEPT !.current_type = chunk.type, !.current_metadata = Metadata(chunk)]
    ELSE s

\* A test that only looks at the content's shape.
IsAtomicDictOnly(s, chunk) == chunk.content.dict

\* current_type == CONFIRMATION or isinstance(chunk["content"], dict)
IsAtomic(s, chunk) == s.current_type = CONFIRMATION \/ chunk.content.dict

\* A coalescer that yields its buffer before the cancelled chunk.
OnCancelledFlushFirst(s, chunk) ==
    [s EXCEPT !.pending =
                 (IF Len(s.accumulated_content) > 0
                  THEN << [type |-> s.current_type,
                           content |-> Str(JoinText(s.accumulated_content)),
                           role |-> None, format |-> None, keys |-> {"type", "content"},
                           metadata |-> NoMeta] >>
                  ELSE << >>) \o << chunk >>,
              !.accumulated_content = << >>,
              !.resume = "final"]

\* The cancelled chunk is yielded as it is and the loop is left.
OnCancelled(s, chunk) ==
    [s EXCEPT !.pending = << chunk >>, !.resume = "final"]

\* The buffer is yielded, then the chunk as it is; the type is unset.
AtomicFlush(s, chunk) ==
    [s EXCEPT !.pending =
                 (IF Len(s.accumulated_content) > 0
                  THEN << BlockWithMetadata(s.current_type, s.accumulated_content,
                                            s.current_metadata) >>
                  ELSE << >>) \o << chunk >>,
              !.accumulated_content = << >>,
              !.current_type = None,
              !.current_metadata = NoMeta,
              !.overdue = FALSE]

\* A type change that seeds the new buffer but keeps the previous type.
TypeChangeKeepsType(s, chunk) ==
    [s EXCEPT !.pending =
                 IF Len(s.accumulated_content) > 0
                 THEN << BlockBare(s.current_type, s.accumulated_content) >>
                 ELSE << >>,
              !.accumulated_content = << chunk.content >>,
              !.overdue = FALSE]

\* A type change that forgets to seed the new buffer with the chunk.
TypeChangeDropsSeed(s, chunk) ==
    [s EXCEPT !.pending =
                 IF Len(s.accumulated_content) > 0
                 THEN << BlockBare(s.current_type, s.accumulated_content) >>
                 ELSE << >>,
              !.accumulated_content = << >>,
              !.current_type = chunk.type,
              !.current_metadata = Metadata(chunk),
              !.overdue = FALSE]

\* The buffer is yielded under the previous type; the chunk seeds a new one.
TypeChange(s, chunk) ==
    [s EXCEPT !.pending =
                 IF Len(s.accumulated_content) > 0
                 THEN << BlockBare(s.current_type, s.accumulated_content) >>
                 ELSE << >>,
              !.accumulated_content = << chunk.content >>,
              !.current_type = chunk.type,
              !.current_metadata = Metadata(chunk),
              !.overdue = FALSE]

\* A count threshold met one fragment early: len(accumulated_content) >= 10.
ThresholdAtCount(s, acc) == s.overdue \/ Len(acc) >= FlushCount

\* A count threshold of half the program's.
ThresholdLow(s, acc) == s.overdue \/ Len(acc) > FlushCount \div 2

\* A threshold on time alone.
ThresholdTimeOnly(s, acc) == s.overdue

\* time.time() - last_yield_time > 0.5 or len(accumulated_content) > 10
ThresholdReached(s, acc) == s.overdue \/ Len(acc) > FlushCount

\* `except Exception` inside the loop: the error is logged, and after a sleep
\* the loop goes on with the locals as they were when the body raised.
Caught(s) == [s EXCEPT !.pending = << >>, !.caught = TRUE]

\* The chunk is appended; past a threshold the buffer is yielded and emptied.
Accumulate(s, chunk) ==
    LET acc == Append(s.accumulated_content, chunk.content) IN
    IF ThresholdReached(s, acc) /\ ~Joinable(acc)
    THEN Caught([s EXCEPT !.accumulated_content = acc])
    ELSE IF ThresholdReached(s, acc)
    THEN [s EXCEPT !.pending = << BlockWithMetadata(s.current_type, acc,
                                                    s.current_metadata) >>,
                   !.accumulated_content = << >>,
                   !.overdue = FALSE]
    ELSE [s EXCEPT !.accumulated_content = acc]

\* One chunk through the body of the while loop.  Joining a buffer that
\* holds an item that is not a str raises, before anything is yielded or
\* assigned.
Coalesce(s, chunk) ==
    IF chunk.type = CANCELLED
    THEN OnCancelled(s, chunk)
    ELSE LET a == Adopt(s, chunk) IN
         IF IsAtomic(a, chunk)
         THEN (IF Joinable(a.accumulated_content) THEN AtomicFlush(a, chunk) ELSE Caught(a))
         ELSE IF chunk.type # a.current_type
         THEN (IF Joinable(a.accumulated_content) THEN TypeChange(a, chunk) ELSE Caught(a))
         ELSE Accumulate(a, chunk)

\* ------------------------------------------------- process_message_stream
Others == << thread, engine_budget, pushed >>

\* A process_message that looks at the block's kind only.
BreaksOnKindOnly(i, block) ==
    /\ consumer[i] = "process_message"
    /\ block.type \in {CANCELLED, ERROR}

\* process_message leaves its loop when its message is no longer active or
\* the block is cancelled or error.
Breaks(i, block) ==
    /\ consumer[i] = "process_message"
    /\ i \notin active_messages \/ block.type \in {CANCELLED, ERROR}

\* _format_display_content(current_content, chunk_type) raises on the block:
\* a code block (messages[0].get on a str, or ' '.join over a dict), a
\* confirmation whose content is not a dict (msg["content"] on a str), a
\* message or console block whose content is not a str (' '.join).  The
\* exception is no HTTPException: it leaves the loop of process_message.
FormatDisplayRaises(block) ==
    \/ block.type = CODE
    \/ block.type = CONFIRMATION /\ ~block.content.dict
    \/ block.type \in {MESSAGE, CONSOLE} /\ ~block.content.str

\* process_message fails on a block it does not break at: `except Exception`
\* (162-164) ends the call with the message still in active_messages.
Fails(i, block) ==
    /\ consumer[i] = "process_message"
    /\ FormatDisplayRaises(block)

\* The generator, its locals now s, runs on to its next yield.  With nothing
\* to yield it goes on to s.resume.  Else the consumer receives the first
\* pending block: process_message may break off (pc "abandoned"), and then
\* removes its message, or fail (pc "failed"), and then leaves it; otherwise
\* the generator stays suspended on further pending blocks (pc "yield"), or
\* will go on from s.resume.
Emit(i, s) ==
    IF s.pending = << >>
    THEN /\ stream' = [stream EXCEPT ![i] = [s EXCEPT !.pc = s.resume]]
         /\ UNCHANGED << emitted, active_messages >>
    ELSE LET block == Head(s.pending)
             rest  == Tail(s.pending) IN
         /\ emitted' = [emitted EXCEPT ![i] = Append(@, block)]
         /\ IF Breaks(i, block)
            THEN /\ stream' = [stream EXCEPT ![i] =
                        [s EXCEPT !.pc = "abandoned", !.pending = << >>]]
                 /\ active_messages' = active_messages \ {i}
            ELSE IF Fails(i, block)
            THEN /\ stream' = [stream EXCEPT ![i] =
                        [s EXCEPT !.pc = "failed", !.pending = << >>]]
                 /\ UNCHANGED active_messages
            ELSE /\ stream' = [stream EXCEPT ![i] =
                        [s EXCEPT !.pending = rest,
                                  !.pc = IF rest = << >> THEN s.resume ELSE "yield"]]
                 /\ UNCHANGED active_messages

\* A start that takes one chunk off the queue, if there is one.
DrainedOne(q) == IF q = << >> THEN q ELSE Tail(q)

\* A start that leaves the queue as it finds it.
DrainedNothing(q) == q

\* `while not self.output_queue.empty(): self.output_queue.get()`
Drained(q) == << >>

\* A degraded bridge that yields nothing.
NotInitializedSilent(i) == << >>

\* `if not self.interpreter`: the one error block yielded before `return`.
NotInitialized(i) == << TerminalChunk(ERROR, <<i, -1>>) >>

\* A call that clears the flag and empties the queue before it looks for the
\* interpreter.
StartStreamClearsFirst(i, who) ==
    /\ stream[i].pc = "unstarted"
    /\ \A j \in Streams : j < i => stream[j].pc # "unstarted"
    /\ consumer' = [consumer EXCEPT ![i] = who]
    /\ prior_abnormal' = [prior_abnormal EXCEPT ![i] =
           /\ i - 1 \in Streams
           /\ \/ stream[i - 1].pc = "abandoned"
              \/ /\ stream[i - 1].pc = "done"
                 /\ \E k \in 1..Len(emitted[i - 1]) :
                        emitted[i - 1][k].type \in {ERROR, CANCELLED}]
    /\ cancel_flag' = FALSE
    /\ output_queue' = Drained(output_queue)
    /\ IF ~interpreter
       THEN /\ emitted' = [emitted EXCEPT ![i] = NotInitialized(i)]
            /\ stream' = [stream EXCEPT ![i].pc =
                   IF who = "process_message" THEN "abandoned" ELSE "done"]
            /\ UNCHANGED << thread, active_messages >>
       ELSE /\ thread' = [thread EXCEPT ![i].state = "running"]
            /\ stream' = [stream EXCEPT ![i].pc = "while"]
            /\ active_messages' = IF who = "process_message"
                                  THEN active_messages \cup {i} ELSE active_messages
            /\ UNCHANGED emitted
    /\ UNCHANGED << interpreter, messages, engine_budget, pushed, cancel_reply >>

\* The call up to its first suspension: the degraded bridge yields one error
\* block; otherwise the flag is cleared, the queue emptied, the thread started.
\* process_message marks its message active before iterating.
StartStream(i, who) ==
    /\ stream[i].pc = "unstarted"
    /\ \A j \in Streams : j < i => stream[j].pc # "unstarted"
    /\ consumer' = [consumer EXCEPT ![i] = who]
    /\ prior_abnormal' = [prior_abnormal EXCEPT ![i] =
           /\ i - 1 \in Streams
           /\ \/ stream[i - 1].pc = "abandoned"
              \/ /\ stream[i - 1].pc = "done"
                 /\ \E k \in 1..Len(emitted[i - 1]) :
                        emitted[i - 1][k].type \in {ERROR, CANCELLED}]
    /\ IF ~interpreter
       THEN /\ emitted' = [emitted EXCEPT ![i] = NotInitialized(i)]
            /\ stream' = [stream EXCEPT ![i].pc =
                   IF who = "process_message" THEN "abandoned" ELSE "done"]
            /\ UNCHANGED << cancel_flag, output_queue, thread, active_messages >>
       ELSE /\ cancel_flag' = FALSE
            /\ output_queue' = Drained(output_queue)
            /\ thread' = [thread EXCEPT ![i].state = "running"]
            /\ stream' = [stream EXCEPT ![i].pc = "while"]
            /\ active_messages' = IF who = "process_message"
                                  THEN active_messages \cup {i} ELSE active_messages
            /\ UNCHANGED emitted
    /\ UNCHANGED << interpreter, messages, engine_budget, pushed, cancel_reply >>

\* `while thread.is_alive() or not self.output_queue.empty()`: the thread is
\* found dead, and the queue is tested next.
WhileAlive(i) ==
    /\ stream[i].pc = "while"
    /\ ~Alive(thread[i])
    /\ stream' = [stream EXCEPT ![i].pc = "while_q"]
    /\ UNCHANGED << interpreter, messages, cancel_flag, output_queue, consumer, active_messages,
                    emitted, prior_abnormal, cancel_reply >>
    /\ UNCHANGED Others

\* A loop test that goes on while the queue is empty.
WhileQueueInverted(i) ==
    /\ stream[i].pc = "while_q"
    /\ output_queue # << >>
    /\ stream' = [stream EXCEPT ![i].pc = "final"]
    /\ UNCHANGED << interpreter, messages, cancel_flag, output_queue, consumer, active_messages,
                    emitted, prior_abnormal, cancel_reply >>
    /\ UNCHANGED Others

\* A loop that tests the thread only: `while thread.is_alive()`.
WhileQueueUntested(i) ==
    /\ stream[i].pc = "while_q"
    /\ stream' = [stream EXCEPT ![i].pc = "final"]
    /\ UNCHANGED << interpreter, messages, cancel_flag, output_queue, consumer, active_messages,
                    emitted, prior_abnormal, cancel_reply >>
    /\ UNCHANGED Others

\* The thread was found dead and the queue is found empty: the loop is left.
WhileQueue(i) ==
    /\ stream[i].pc = "while_q"
    /\ output_queue = << >>
    /\ stream' = [stream EXCEPT ![i].pc = "final"]
    /\ UNCHANGED << interpreter, messages, cancel_flag, output_queue, consumer, active_messages,
                    emitted, prior_abnormal, cancel_reply >>
    /\ UNCHANGED Others

\* The loop test passes.
InLoop(i) ==
    \/ stream[i].pc = "while" /\ Alive(thread[i])
    \/ stream[i].pc = "while_q" /\ output_queue # << >>

\* The loop body with the queue not empty: one chunk is taken and coalesced,
\* up to the first yield it causes.  (With the queue empty the body only
\* sleeps and the loop test is made again: no variable changes.)
Body(i) ==
    /\ InLoop(i)
    /\ output_queue # << >>
    /\ output_queue' = Tail(output_queue)
    /\ Emit(i, Coalesce([stream[i] EXCEPT
                             !.resume = "while",
                             !.late = @ + (IF stream[i].overdue THEN 1 ELSE 0)],
                        Head(output_queue)))
    /\ UNCHANGED << interpreter, messages, cancel_flag, consumer, prior_abnormal, cancel_reply >>
    /\ UNCHANGED Others

\* The consumer asks for the next block of a generator suspended between two
\* yields of one loop pass.
Yield(i) ==
    /\ stream[i].pc = "yield"
    /\ Emit(i, stream[i])
    /\ UNCHANGED << interpreter, messages, cancel_flag, output_queue, consumer, prior_abnormal, cancel_reply >>
    /\ UNCHANGED Others

\* A final flush that yields the buffer whether or not it holds anything.
FinalFlushUnguarded(s) ==
    [s EXCEPT !.pending = << BlockBare(s.current_type, s.accumulated_content) >>,
              !.resume = "join"]

\* After the loop: the remaining buffer is yielded.
FinalFlush(s) ==
    [s EXCEPT !.pending = IF Len(s.accumulated_content) > 0
                          THEN << BlockBare(s.current_type, s.accumulated_content) >>
                          ELSE << >>,
              !.resume = "join"]

\* A generator that lets the exception out to its consumer.
StreamErrorPropagates(s, tok) ==
    [s EXCEPT !.pending = << >>, !.resume = "raised", !.caught = TRUE]

\* `except Exception` around the whole body: one error block with str(e) is
\* yielded and the generator ends (thread.join is skipped).
StreamError(s, tok) ==
    [s EXCEPT !.pending = << TerminalChunk(ERROR, tok) >>, !.resume = "done",
              !.caught = TRUE]

Final(i) ==
    /\ stream[i].pc = "final"
    /\ Emit(i, IF Joinable(stream[i].accumulated_content)
               THEN FinalFlush(stream[i])
               ELSE StreamError(stream[i], <<i, -2>>))
    /\ UNCHANGED << interpreter, messages, cancel_flag, output_queue, consumer, prior_abnormal, cancel_reply >>
    /\ UNCHANGED Others

\* A join without timeout: thread.join() returns once the thread has stopped.
ThreadJoinUntimed(i) ==
    /\ stream[i].pc = "join"
    /\ ~Alive(thread[i])
    /\ stream' = [stream EXCEPT ![i].pc = "done"]
    /\ active_messages' = active_messages \ {i}
    /\ UNCHANGED << interpreter, messages, cancel_flag, output_queue, consumer,
                    emitted, prior_abnormal, cancel_reply >>
    /\ UNCHANGED Others

\* An invocation that clears the flag as it ends.
ThreadJoinClearsFlag(i) ==
    /\ stream[i].pc = "join"
    /\ stream' = [stream EXCEPT ![i].pc = "done"]
    /\ active_messages' = active_messages \ {i}
    /\ cancel_flag' = FALSE
    /\ UNCHANGED << interpreter, messages, output_queue, consumer,
                    emitted, prior_abnormal, cancel_reply >>
    /\ UNCHANGED Others

\* thread.join(timeout=1.0), then the generator ends; process_message, its
\* loop over, removes its message.
ThreadJoin(i) ==
    /\ stream[i].pc = "join"
    /\ stream' = [stream EXCEPT ![i].pc = "done"]
    /\ active_messages' = active_messages \ {i}
    /\ UNCHANGED << interpreter, messages, cancel_flag, output_queue, consumer,
                    emitted, prior_abnormal, cancel_reply >>
    /\ UNCHANGED Others

\* A queue read whose exception reaches the generator's outer handler.
QueueFaultEndsStream(s) ==
    [s EXCEPT !.faults = @ + 1,
              !.pending = << TerminalChunk(ERROR, <<0, -2>>) >>,
              !.resume = "done"]

\* `except Exception` inside the loop, entered from the queue read: the
\* exception is logged, the generator sleeps and the loop test is made again.
QueueFault(s) == [s EXCEPT !.faults = @ + 1, !.pending = << >>, !.resume = "while"]

\* An event loop that may run another coroutine between the test and the get.
LoopFreeAnywhere == TRUE

\* The event loop can run a step of any coroutine: none is between
\* `if not self.output_queue.empty()` and `self.output_queue.get(timeout=0.1)`,
\* where nothing is awaited.
LoopFree == \A j \in Streams : stream[j].pc # "get"

\* The loop body up to the emptiness test, which finds the queue not empty.
Observe(i) ==
    /\ InLoop(i)
    /\ output_queue # << >>
    /\ stream' = [stream EXCEPT ![i].pc = "get"]
    /\ UNCHANGED << interpreter, messages, cancel_flag, output_queue, consumer, active_messages,
                    emitted, prior_abnormal, cancel_reply >>
    /\ UNCHANGED Others

\* output_queue.get(timeout=0.1) and the rest of the body.  On an empty queue
\* the get waits 0.1 s and raises queue.Empty, which the inner handler catches.
QueueGet(i) ==
    /\ stream[i].pc = "get"
    /\ IF output_queue = << >>
       THEN /\ Emit(i, QueueFault(stream[i]))
            /\ UNCHANGED output_queue
       ELSE /\ output_queue' = Tail(output_queue)
            /\ Emit(i, Coalesce([stream[i] EXCEPT
                                     !.resume = "while",
                                     !.late = @ + (IF stream[i].overdue THEN 1 ELSE 0)],
                                Head(output_queue)))
    /\ UNCHANGED << interpreter, messages, cancel_flag, consumer, prior_abnormal, cancel_reply >>
    /\ UNCHANGED Others

\* The loop body, its read of the queue raising (output_queue.empty() or
\* output_queue.get(timeout=0.1)) before a chunk is in hand.
GetFault(i) ==
    /\ InLoop(i)
    /\ Emit(i, QueueFault(stream[i]))
    /\ UNCHANGED << interpreter, messages, cancel_flag, output_queue, consumer, prior_abnormal,
                    cancel_reply >>
    /\ UNCHANGED Others

\* More than 0.5 s have passed since last_yield_time was set.  The elapsed
\* time is read only when a chunk is appended, so the expiry is placed right
\* before a chunk is taken.
TimePasses(i) ==
    /\ InLoop(i)
    /\ output_queue # << >>
    /\ ~stream[i].overdue
    /\ stream' = [stream EXCEPT ![i].overdue = TRUE]
    /\ UNCHANGED << interpreter, messages, cancel_flag, output_queue, consumer, active_messages,
                    emitted, prior_abnormal, cancel_reply >>
    /\ UNCHANGED Others

\* ------------------------------------------------------------------ cancel
Active(i) == stream[i].pc \notin {"unstarted", "done", "abandoned", "failed"}

\* A cancel_current_task that reports whether it changed anything.
cancel_current_task_if_new == [cancel_flag |-> TRUE, result |-> ~cancel_flag]

\* cancel_current_task(): the flag as set by it, and the value it returns.
cancel_current_task == [cancel_flag |-> TRUE, result |-> TRUE]

\* The /cancel command: on a true result it answers that the task is being
\* cancelled and removes every active message; else that there is no task.
cancel ==
    /\ cancel_flag' = cancel_current_task.cancel_flag
    /\ IF cancel_current_task.result
       THEN /\ cancel_reply' = "Cancelling current task..."
            /\ active_messages' = {}
       ELSE /\ cancel_reply' = "No active task to cancel"
            /\ UNCHANGED active_messages
    /\ UNCHANGED << interpreter, messages, output_queue, stream, consumer, emitted, prior_abnormal >>
    /\ UNCHANGED Others

\* ------------------------------------------------------------------- reset
\* reset_conversation(): with an interpreter the history is emptied.
reset_conversation == [messages |-> IF interpreter THEN << >> ELSE messages,
                       result |-> interpreter]

\* The /reset and /flush commands: both call reset_conversation(), whatever
\* the bridge is doing.
reset ==
    /\ messages' = reset_conversation.messages
    /\ UNCHANGED << interpreter, cancel_flag, output_queue, thread, stream, consumer,
                    active_messages, engine_budget, emitted, pushed, prior_abnormal,
                    cancel_reply >>

\* ---------------------------------------------------------- specifications
NoUnit == [type |-> MESSAGE, format |-> "text", role |-> "assistant", payload |-> "none"]

\* load_context(messages), called once, by the bot's constructor
\* (_load_history), with the context stored in its database: the history is
\* set if there is an interpreter and the context is not empty.
load_context(context) == IF interpreter /\ context # << >> THEN context ELSE << >>

\* The bridge and the bot once constructed, the database holding one of the
\* contexts stored.
InitBridge(S, budget, ok, stored) ==
    /\ interpreter \in ok
    /\ messages \in { load_context(context) : context \in stored }
    /\ cancel_flag = FALSE
    /\ output_queue = << >>
    /\ thread = [i \in S |-> [state |-> "unstarted", n |-> 0, unit |-> NoUnit,
                              raised |-> FALSE, after_cancel |-> << >>]]
    /\ stream = [i \in S |-> [pc |-> "unstarted", accumulated_content |-> << >>,
                              current_type |-> None, current_metadata |-> NoMeta,
                              overdue |-> FALSE, late |-> 0, caught |-> FALSE, faults |-> 0,
                              pending |-> << >>, resume |-> "while"]]
    /\ consumer = [i \in S |-> None]
    /\ active_messages = {}
    /\ engine_budget = [i \in S |-> budget]
    /\ emitted = [i \in S |-> << >>]
    /\ pushed = [i \in S |-> << >>]
    /\ prior_abnormal = [i \in S |-> FALSE]
    /\ cancel_reply = None

\* The same with an empty database.
InitWith(S, budget, ok) == InitBridge(S, budget, ok, { << >> })

Consumers == {"process_message", "exhaustive"}

\* One stream on a fresh bridge, iterated to exhaustion, the engine yielding
\* units of any kind.
Init == InitWith({1}, MaxUnits, BOOLEAN)
Next ==
    \/ \E i \in Streams : StartStream(i, "exhaustive")
    \/ \E i \in Streams, u \in EngineUnits : ProducerNext(i, u)
    \/ \E i \in Streams : ProducerPut(i)
    \/ \E i \in Streams : EngineDone(i)
    \/ \E i \in Streams : EngineRaise(i)
    \/ \E i \in Streams : ThreadExit(i)
    \/ \E i \in Streams : WhileAlive(i)
    \/ \E i \in Streams : WhileQueue(i)
    \/ \E i \in Streams : Body(i)
    \/ \E i \in Streams : Yield(i)
    \/ \E i \in Streams : Final(i)
    \/ \E i \in Streams : ThreadJoin(i)
    \/ \E i \in Streams : TimePasses(i)
    \/ cancel
Spec == Init /\ [][Next]_vars

\* The generator's own steps, taken as long as its consumer keeps asking.
Coalescer(i) ==
    \/ WhileAlive(i)
    \/ WhileQueue(i)
    \/ Body(i)
    \/ Yield(i)
    \/ Final(i)
    \/ ThreadJoin(i)

\* One such stream under fair scheduling: the consumer keeps iterating the
\* generator, and the producer thread, once it holds a unit or has made its
\* last put, gets to run.  Nothing makes the engine yield or finish.
InitLive == InitWith({1}, MaxUnitsLive, BOOLEAN)
SpecLive ==
    /\ InitLive
    /\ [][Next]_vars
    /\ WF_vars(Coalescer(1))
    /\ WF_vars(ProducerPut(1))
    /\ WF_vars(ThreadExit(1))

\* The same, with an engine that does not block for ever: it goes on to
\* yield its next unit or to finish.
SpecFair ==
    /\ SpecLive
    /\ WF_vars(EngineDone(1))
    /\ WF_vars(\E u \in EngineUnits : ProducerNext(1, u))

\* One such stream whose consumer keeps iterating the generator, with nothing
\* said of the producer thread: it may stay for ever where it is.
SpecJoin ==
    /\ InitLive
    /\ [][Next]_vars
    /\ WF_vars(Coalescer(1))

\* One stream, never cancelled, whose engine yields without failing a run of
\* text units of one kind; at most MaxLate chunks are taken after an expiry.
\* No loop pass of such a stream yields twice.
InitRun == InitWith({1}, MaxRun, {TRUE})
NextRun ==
    \/ \E i \in Streams : StartStream(i, "exhaustive")
    \/ \E i \in Streams, u \in RunUnits :
          /\ thread[i].n = 0 \/ u = thread[i].unit
          /\ ProducerNext(i, u)
    \/ \E i \in Streams : ProducerPut(i)
    \/ \E i \in Streams : EngineDone(i)
    \/ \E i \in Streams : WhileAlive(i)
    \/ \E i \in Streams : WhileQueue(i)
    \/ \E i \in Streams : Body(i)
    \/ \E i \in Streams : Final(i)
    \/ \E i \in Streams : ThreadJoin(i)
    \/ \E i \in Streams : stream[i].late < MaxLate /\ TimePasses(i)
SpecRun == InitRun /\ [][NextRun]_vars

\* The same, but the run may follow one text unit of another kind: the
\* engine's first two units are of any kinds, its later ones of the second's.
NextSeeded ==
    \/ \E i \in Streams : StartStream(i, "exhaustive")
    \/ \E i \in Streams, u \in RunUnits :
          /\ thread[i].n <= 1 \/ u = thread[i].unit
          /\ ProducerNext(i, u)
    \/ \E i \in Streams : ProducerPut(i)
    \/ \E i \in Streams : EngineDone(i)
    \/ \E i \in Streams : WhileAlive(i)
    \/ \E i \in Streams : WhileQueue(i)
    \/ \E i \in Streams : Body(i)
    \/ \E i \in Streams : Yield(i)
    \/ \E i \in Streams : Final(i)
    \/ \E i \in Streams : ThreadJoin(i)
    \/ \E i \in Streams : stream[i].late < MaxLate /\ TimePasses(i)
SpecSeeded == InitRun /\ [][NextSeeded]_vars

\* One stream, iterated to exhaustion, whose engine may yield contents that
\* are neither str nor dict.
InitFail == InitWith({1}, MaxUnitsFail, {TRUE})
NextFail ==
    \/ \E i \in Streams : StartStream(i, "exhaustive")
    \/ \E i \in Streams, u \in FailUnits : ProducerNext(i, u)
    \/ \E i \in Streams : ProducerPut(i)
    \/ \E i \in Streams : EngineDone(i)
    \/ \E i \in Streams : EngineRaise(i)
    \/ \E i \in Streams : ThreadExit(i)
    \/ \E i \in Streams : WhileAlive(i)
    \/ \E i \in Streams : WhileQueue(i)
    \/ \E i \in Streams : Body(i)
    \/ \E i \in Streams : Yield(i)
    \/ \E i \in Streams : Final(i)
    \/ \E i \in Streams : ThreadJoin(i)
    \/ \E i \in Streams : TimePasses(i)
    \/ cancel
SpecFail == InitFail /\ [][NextFail]_vars

\* One stream, iterated to exhaustion, whose reads of the queue may raise,
\* at most MaxFaults times.
InitFault == InitWith({1}, MaxUnitsFault, {TRUE})
NextFault ==
    \/ \E i \in Streams : StartStream(i, "exhaustive")
    \/ \E i \in Streams, u \in EngineUnits : ProducerNext(i, u)
    \/ \E i \in Streams : ProducerPut(i)
    \/ \E i \in Streams : EngineDone(i)
    \/ \E i \in Streams : EngineRaise(i)
    \/ \E i \in Streams : ThreadExit(i)
    \/ \E i \in Streams : WhileAlive(i)
    \/ \E i \in Streams : WhileQueue(i)
    \/ \E i \in Streams : Body(i)
    \/ \E i \in Streams : Yield(i)
    \/ \E i \in Streams : Final(i)
    \/ \E i \in Streams : ThreadJoin(i)
    \/ \E i \in Streams : TimePasses(i)
    \/ \E i \in Streams : stream[i].faults < MaxFaults /\ GetFault(i)
    \/ cancel
SpecFault == InitFault /\ [][NextFault]_vars

\* Two streams on the same bridge that may be in flight together (nothing in
\* the bot or the bridge holds the second back), the test of the queue and
\* the get taken as two steps, with no /cancel and no engine failure (a
\* thread ends when its engine does).  The producer threads run at any time;
\* the coroutines run one at a time on the event loop.
InitPoll == InitWith({1, 2}, MaxUnitsPoll, {TRUE})
NextPoll ==
    \/ \E i \in Streams : LoopFree /\ StartStream(i, "exhaustive")
    \/ \E i \in Streams, u \in PollUnits : ProducerNext(i, u)
    \/ \E i \in Streams : ProducerPut(i)
    \/ \E i \in Streams : EngineDone(i)
    \/ \E i \in Streams : LoopFree /\ WhileAlive(i)
    \/ \E i \in Streams : LoopFree /\ WhileQueue(i)
    \/ \E i \in Streams : LoopFree /\ Observe(i)
    \/ \E i \in Streams : QueueGet(i)
    \/ \E i \in Streams : LoopFree /\ Yield(i)
    \/ \E i \in Streams : LoopFree /\ Final(i)
    \/ \E i \in Streams : LoopFree /\ ThreadJoin(i)
SpecPoll == InitPoll /\ [][NextPoll]_vars

\* One invocation made by the bot (process_message), on a bridge with or
\* without interpreter and with or without a stored history, the engine
\* yielding units of any kind, with /cancel and /reset at any time.
StoredContexts == { << >>, << "user", "assistant" >> }
InitBot == InitBridge({1}, MaxUnitsBot, BOOLEAN, StoredContexts)
NextBot ==
    \/ \E i \in Streams : StartStream(i, "process_message")
    \/ \E i \in Streams, u \in BotUnits : ProducerNext(i, u)
    \/ \E i \in Streams : ProducerPut(i)
    \/ \E i \in Streams : EngineDone(i)
    \/ \E i \in Streams : EngineRaise(i)
    \/ \E i \in Streams : ThreadExit(i)
    \/ \E i \in Streams : WhileAlive(i)
    \/ \E i \in Streams : WhileQueue(i)
    \/ \E i \in Streams : Body(i)
    \/ \E i \in Streams : Yield(i)
    \/ \E i \in Streams : Final(i)
    \/ \E i \in Streams : ThreadJoin(i)
    \/ \E i \in Streams : TimePasses(i)
    \/ cancel
    \/ reset
SpecBot == InitBot /\ [][NextBot]_vars

\* Two invocations made by the bot, the second begun with no stream active
\* and the flag set: the state a /cancel made with no stream active leaves,
\* whether that call set the flag or found it set.  /cancel at any time.  The
\* producer's reading of the flag and its put of the cancelled chunk are two
\* steps of its thread, between which the event loop may run.
InitScope == InitWith({1, 2}, MaxUnitsScope, {TRUE})
NextScope ==
    \/ \E i \in Streams :
          /\ \A j \in Streams : j < i => ~Active(j)
          /\ i > 1 => cancel_flag
          /\ StartStream(i, "process_message")
    \/ \E i \in Streams, u \in PollUnits : ProducerRead(i, u)
    \/ \E i \in Streams : PutCancelled(i)
    \/ \E i \in Streams : ProducerPut(i)
    \/ \E i \in Streams : EngineDone(i)
    \/ \E i \in Streams : ThreadExit(i)
    \/ \E i \in Streams : WhileAlive(i)
    \/ \E i \in Streams : WhileQueue(i)
    \/ \E i \in Streams : Body(i)
    \/ \E i \in Streams : Yield(i)
    \/ \E i \in Streams : Final(i)
    \/ \E i \in Streams : ThreadJoin(i)
    \/ cancel
SpecScope == InitScope /\ [][NextScope]_vars

\* Two streams on the same bridge, the second started once the first one's
\* generator is no longer iterated (its producer thread may still be alive).
InitTwo == InitWith({1, 2}, MaxUnitsTwo, {TRUE})
NextTwo ==
    \/ \E i \in Streams, who \in Consumers :
          /\ \A j \in Streams : j < i => ~Active(j)
          /\ StartStream(i, who)
    \/ \E i \in Streams, u \in TwoUnits : ProducerNext(i, u)
    \/ \E i \in Streams : ProducerPut(i)
    \/ \E i \in Streams : EngineDone(i)
    \/ \E i \in Streams : EngineRaise(i)
    \/ \E i \in Streams : ThreadExit(i)
    \/ \E i \in Streams : WhileAlive(i)
    \/ \E i \in Streams : WhileQueue(i)
    \/ \E i \in Streams : Body(i)
    \/ \E i \in Streams : Yield(i)
    \/ \E i \in Streams : Final(i)
    \/ \E i \in Streams : ThreadJoin(i)
    \/ cancel
SpecTwo == InitTwo /\ [][NextTwo]_vars

\* Successive invocations on a bridge whose interpreter failed to initialise,
\* each begun once the one before it is over, with /cancel at any time.  No
\* thread is started and no generator is left suspended on such a bridge, so
\* no step of a producer or coalescer is ever enabled.
InitDegraded == InitWith(1..MaxInvocations, MaxUnits, {FALSE})
NextDegraded ==
    \/ \E i \in Streams, who \in Consumers :
          /\ \A j \in Streams : j < i => ~Active(j)
          /\ StartStream(i, who)
    \/ cancel
SpecDegraded == InitDegraded /\ [][NextDegraded]_vars

\* ------------------------------------------------------------ the claims
\* The tokens of a chunk's or block's content.
Tokens(d) == { d.content.text[k] : k \in 1..Len(d.content.text) }

RECURSIVE Contents(_)
\* The contents of a sequence of chunks or blocks, joined in order.
Contents(ds) == IF ds = << >> THEN << >> ELSE Head(ds).content.text \o Contents(Tail(ds))

\* The blocks of stream i that hold content of the chunk c.
BlocksOf(i, c) == { b \in 1..Len(emitted[i]) : Tokens(c) \subseteq Tokens(emitted[i][b]) }

HasKind(ds, kind) == \E k \in 1..Len(ds) : ds[k].type = kind

Started(i) == thread[i].state # "unstarted"

\* C1: a stream that has a producer, has ended, was not cancelled and carried
\* text only emitted every pushed chunk in exactly one block, and its blocks'
\* contents joined in emission order are the pushed chunks' contents joined in
\* push order.
C1_NothingLostOrReordered ==
    \A i \in Streams :
        ( /\ stream[i].pc = "done"
          /\ Started(i)
          /\ ~HasKind(pushed[i], CANCELLED)
          /\ \A k \in 1..Len(pushed[i]) : ~pushed[i][k].content.dict )
        => /\ Contents(emitted[i]) = Contents(pushed[i])
           /\ \A k \in 1..Len(pushed[i]) : Cardinality(BlocksOf(i, pushed[i][k])) = 1

C1_Witness ==
    /\ stream[1].pc = "done"
    /\ ~HasKind(pushed[1], CANCELLED)
    /\ Len(pushed[1]) = 3
    /\ Len(emitted[1]) = 2
    /\ \A k \in 1..3 : ~pushed[1][k].content.dict
    /\ pushed[1][1].type = pushed[1][2].type
    /\ pushed[1][2].type # pushed[1][3].type

\* The place of a token in the order the producer of stream i pushed.
PushIndex(i, tok) == CHOOSE k \in 1..Len(pushed[i]) : tok \in Tokens(pushed[i][k])
IsPushed(i, tok) == \E k \in 1..Len(pushed[i]) : tok \in Tokens(pushed[i][k])

\* C2: blocks are emitted in the order their chunks were pushed: of two
\* blocks of one stream, every chunk in the earlier block was pushed before
\* every chunk in the later one.
C2_EmissionFollowsPushOrder ==
    \A i \in Streams :
        \A x, y \in 1..Len(emitted[i]) :
            x < y =>
                \A a \in Tokens(emitted[i][x]), b \in Tokens(emitted[i][y]) :
                    (IsPushed(i, a) /\ IsPushed(i, b)) => PushIndex(i, a) < PushIndex(i, b)

\* C3 as claimed: once cancel has been called with the stream's producer
\* thread alive, the next block the stream emits is of kind cancelled (so no
\* other block is emitted, flag set and thread alive, before a cancelled one).
C3_NextBlockAfterCancelIsCancelled ==
    [][ \A i \in Streams :
          ( /\ cancel_flag
            /\ Active(i)
            /\ Alive(thread[i])
            /\ ~HasKind(emitted[i], CANCELLED)
            /\ Len(emitted'[i]) > Len(emitted[i]) )
          => emitted'[i][Len(emitted'[i])].type = CANCELLED ]_vars

\* C3 as amended: when the coalescer takes the producer's cancelled chunk from
\* the queue, the block the stream emits next is that chunk, emitted in the
\* same step.
C3_CancelledChunkEmittedNext ==
    [][ \A i \in Streams :
          ( /\ InLoop(i)
            /\ output_queue # << >>
            /\ Head(output_queue).type = CANCELLED
            /\ output_queue' = Tail(output_queue) )
          => emitted'[i] = Append(emitted[i], Head(output_queue)) ]_vars

C3_Witness ==
    /\ cancel_flag
    /\ Len(emitted[1]) = 2
    /\ emitted[1][1].type = MESSAGE
    /\ emitted[1][2].type = CANCELLED
    /\ Len(pushed[1]) = 3

\* C4: a cancelled block is the last block of its stream.
C4_CancelledIsFinal ==
    \A i \in Streams :
        \A k \in 1..Len(emitted[i]) :
            emitted[i][k].type = CANCELLED => k = Len(emitted[i])

\* A chunk that must stay alone: of kind confirmation, or with a dict content.
MustBeSingleton(c) == c.type = CONFIRMATION \/ c.content.dict

\* C5: a block holding a confirmation chunk or a dict payload holds nothing
\* else, and once the stream has ended every such chunk that is no longer in
\* the queue is in exactly one block.
C5_AtomicChunksAreSingletons ==
    \A i \in Streams :
        \A k \in 1..Len(pushed[i]) :
            MustBeSingleton(pushed[i][k]) =>
                /\ \A b \in BlocksOf(i, pushed[i][k]) :
                       /\ emitted[i][b].content = pushed[i][k].content
                       /\ emitted[i][b].type = pushed[i][k].type
                /\ stream[i].pc = "done" =>
                       \/ Cardinality(BlocksOf(i, pushed[i][k])) = 1
                       \/ \E q \in 1..Len(output_queue) : output_queue[q] = pushed[i][k]

C5_Witness ==
    /\ stream[1].pc = "done"
    /\ Len(pushed[1]) = 3
    /\ Len(emitted[1]) = 3
    /\ pushed[1][1].type = MESSAGE
    /\ pushed[1][2].type = CONFIRMATION /\ ~pushed[1][2].content.dict
    /\ pushed[1][3].type = MESSAGE
    /\ emitted[1][2].type = CONFIRMATION

\* C6: a stream started after the previous stream ended abnormally (its
\* consumer got an error or cancelled block, or broke off after a cancel)
\* emits no content pushed by the previous stream's producer.
C6_NoCrossStreamLeak ==
    \A i \in Streams :
        prior_abnormal[i] =>
            \A b \in 1..Len(emitted[i]) :
                \A tok \in Tokens(emitted[i][b]) : tok[1] = i

\* The stream's producer pushed a run of N text chunks of one kind and
\* nothing else, and every chunk was taken within 0.5 s of last_yield_time.
UniformRun(i, N) ==
    /\ stream[i].pc = "done"
    /\ Len(pushed[i]) = N
    /\ stream[i].late = 0
    /\ \A k \in 1..N : /\ ~pushed[i][k].content.dict
                       /\ pushed[i][k].type = pushed[i][1].type

OneBlockOfAll(i) ==
    /\ Len(emitted[i]) = 1
    /\ emitted[i][1].content.text = Contents(pushed[i])
    /\ emitted[i][1].type = pushed[i][1].type

C8_TypeChangeFlushesFirst ==
    \A i \in Streams :
        \A k \in 1..(Len(pushed[i]) - 1) :
            pushed[i][k].type # pushed[i][k + 1].type =>
                \A b \in BlocksOf(i, pushed[i][k + 1]) :
                    \E a \in BlocksOf(i, pushed[i][k]) : a < b

\* C9: in a run of text chunks of one kind, when the loop is left after more
\* than 10 chunks, or after a chunk was taken more than 0.5 s after the last
\* flush, a block has already been emitted; and a threshold flush leaves the
\* buffer empty and the current kind set to the run's kind.
C9_ThresholdFlush ==
    /\ [] \A i \in Streams :
            ( /\ stream[i].pc = "final"
              /\ Len(pushed[i]) > FlushCount \/ stream[i].late > 0 )
            => Len(emitted[i]) >= 1
    /\ [][ \A i \in Streams :
             ( /\ InLoop(i)
               /\ Len(emitted'[i]) > Len(emitted[i])
               /\ Head(output_queue).type # CONFIRMATION )
             => /\ stream'[i].accumulated_content = << >>
                /\ stream'[i].current_type = Head(output_queue).type
                /\ emitted'[i][Len(emitted'[i])].type = Head(output_queue).type ]_vars

C9_Witness ==
    /\ stream[1].pc = "final"
    /\ Len(pushed[1]) = FlushCount + 1
    /\ stream[1].late = 0
    /\ Len(emitted[1]) = 1
    /\ emitted[1][1].type = MESSAGE
    /\ Len(emitted[1][1].content.text) = FlushCount + 1
    /\ stream[1].accumulated_content = << >>

\* C10: once the engine call has raised, the producer's last chunk is the one
\* error chunk with the failure message; and when the stream has ended, its
\* last block is the one error block, with that message.
IsFailure(i, d) == d.type = ERROR /\ d.content = Text(<<i, 0>>)

C10_FailureEndsStream ==
    \A i \in Streams :
        thread[i].raised =>
            /\ Len(pushed[i]) >= 1
            /\ \A k \in 1..Len(pushed[i]) :
                   pushed[i][k].type = ERROR <=> k = Len(pushed[i])
            /\ IsFailure(i, pushed[i][Len(pushed[i])])
            /\ stream[i].pc = "done" =>
                   /\ Len(emitted[i]) >= 1
                   /\ \A b \in 1..Len(emitted[i]) :
                          emitted[i][b].type = ERROR <=> b = Len(emitted[i])
                   /\ IsFailure(i, emitted[i][Len(emitted[i])])

C10_Witness ==
    /\ thread[1].raised
    /\ stream[1].pc = "done"
    /\ Len(pushed[1]) = 3
    /\ Len(emitted[1]) = 2
    /\ emitted[1][1].type = MESSAGE
    /\ emitted[1][2].type = ERROR

\* C11: on a bridge whose interpreter is None, every invocation has yielded
\* exactly one block, of kind error, and is over, with no thread started and
\* the queue and flag untouched; and the bridge stays without interpreter.
C11_DegradedBridgeYieldsOneError ==
    /\ [] ( ~interpreter =>
              \A i \in Streams :
                  stream[i].pc # "unstarted" =>
                      /\ stream[i].pc \in {"done", "abandoned"}
                      /\ Len(emitted[i]) = 1
                      /\ emitted[i][1].type = ERROR
                      /\ ~Started(i) )
    /\ [][ ~interpreter => ~interpreter' ]_vars

C11_Witness ==
    /\ ~interpreter
    /\ \A i \in Streams : stream[i].pc \in {"done", "abandoned"} /\ Len(emitted[i]) = 1
    /\ consumer[1] = "exhaustive"
    /\ consumer[2] = "process_message"
    /\ cancel_flag

\* C12: the generator never lets an exception out to its consumer, and a
\* stream in which the producer thread or the stream-processing body raised
\* has, once over, an error block as its last block and no other error block.
C12_FailuresBecomeLastErrorBlock ==
    \A i \in Streams :
        /\ stream[i].pc # "raised"
        /\ ( /\ stream[i].pc = "done"
             /\ thread[i].raised \/ stream[i].caught )
           => /\ Len(emitted[i]) >= 1
              /\ \A b \in 1..Len(emitted[i]) :
                     emitted[i][b].type = ERROR <=> b = Len(emitted[i])

C12_Witness ==
    /\ stream[1].pc = "done"
    /\ stream[1].caught
    /\ ~thread[1].raised
    /\ Len(pushed[1]) = 3
    /\ Len(emitted[1]) = 1
    /\ emitted[1][1] = TerminalChunk(ERROR, <<1, -2>>)

\* The bridge and bot as a /cancel leaves them.
Cancelled == cancel_flag /\ active_messages = {} /\ cancel_reply = "Cancelling current task..."

\* C13: /cancel never answers that there is no task; the step that sets the
\* flag leaves the queue, the threads and the coalescers untouched and leads
\* to the state Cancelled, whether or not a stream is active; and in that
\* state a further /cancel changes nothing.
C13_CancelAlwaysAcceptedAndIdempotent ==
    /\ [] ( /\ cancel_reply # "No active task to cancel"
            /\ Cancelled => ~ENABLED << cancel >>_vars )
    /\ [][ (~cancel_flag /\ cancel_flag') =>
              /\ Cancelled'
              /\ UNCHANGED << output_queue, thread, stream, emitted, pushed, interpreter >> ]_vars

C13_Witness ==
    /\ Cancelled
    /\ stream[1].pc = "done"
    /\ ~HasKind(pushed[1], CANCELLED)
    /\ Len(pushed[1]) = 2
    /\ Len(emitted[1]) = 2

\* C14: if the producer thread is eventually dead for good, the stream
\* eventually ends; the loop is left by the test only with the thread dead and
\* the queue empty; and leaving the final flush with a buffer emits that
\* buffer as one block.
C14_StreamEventuallyEnds ==
    /\ (<>[](thread[1].state = "dead")) => <>(stream[1].pc = "done")
    /\ [][ (stream[1].pc = "while_q" /\ stream'[1].pc = "final" /\ emitted' = emitted) =>
              (~Alive(thread[1]) /\ output_queue = << >>) ]_vars
    /\ [][ ( /\ stream[1].pc = "final"
             /\ stream'[1].pc # "final"
             /\ Len(stream[1].accumulated_content) > 0 )
           => emitted'[1] = Append(emitted[1], BlockBare(stream[1].current_type,
                                                          stream[1].accumulated_content)) ]_vars

C14_Witness ==
    /\ stream[1].pc = "done"
    /\ thread[1].state = "dead"
    /\ Len(pushed[1]) = 3
    /\ Len(emitted[1]) = 2
    /\ ~HasKind(pushed[1], CANCELLED)
    /\ emitted[1][2].keys = {"type", "content"}

\* C15 as claimed: whenever the flag is set with the producer thread alive,
\* the stream eventually emits a cancelled block.
C15_CancelEventuallyEmitsCancelled ==
    (cancel_flag /\ Alive(thread[1])) ~> HasKind(emitted[1], CANCELLED)

\* C15 as amended: a unit the producer receives with the flag set is replaced
\* by the cancelled chunk, the last the producer puts; and once the cancelled
\* chunk is put, the stream eventually emits a cancelled block.
C15_CancelledAtNextUnit ==
    /\ [][ ( /\ cancel_flag
             /\ thread[1].state = "running"
             /\ thread'[1].n = thread[1].n + 1 )
           => /\ pushed'[1] = Append(pushed[1], TerminalChunk(CANCELLED, <<1, 0>>))
              /\ thread'[1].state = "returning" ]_vars
    /\ [][ HasKind(pushed[1], CANCELLED) => pushed'[1] = pushed[1] ]_vars
    /\ HasKind(pushed[1], CANCELLED) ~> HasKind(emitted[1], CANCELLED)

C15_Witness ==
    /\ stream[1].pc = "done"
    /\ thread[1].state = "dead"
    /\ Len(pushed[1]) = 2
    /\ pushed[1][2].type = CANCELLED
    /\ emitted[1][1].type = CANCELLED
    /\ engine_budget[1] = 0

\* C16: every emitted block has the keys type, content and metadata, the
\* metadata holding a format and a role.
C16_EveryBlockIsTypedBlock ==
    \A i \in Streams :
        \A b \in 1..Len(emitted[i]) :
            /\ {"type", "content", "metadata"} \subseteq emitted[i][b].keys
            /\ emitted[i][b].metadata.format # None
            /\ emitted[i][b].metadata.role # None

\* C17: at most one producer thread of the bridge is alive; stated for the
\* threads that are still inside the engine's loop, the least the claim asks.
C17_OneProducerAlive ==
    Cardinality({ i \in Streams : thread[i].state \in {"running", "got"} }) <= 1

\* C18: in the step in which the coalescer takes a confirmation chunk from the
\* queue, that chunk is emitted, or is the block the suspended generator hands
\* over next (behind the flushed buffer), before any further chunk is taken.
C18_ConfirmationEmittedAtOnce ==
    [][ \A i \in Streams :
          ( /\ InLoop(i)
            /\ output_queue # << >>
            /\ Head(output_queue).type = CONFIRMATION
            /\ output_queue' = Tail(output_queue) )
          => \/ /\ Len(emitted'[i]) = Len(emitted[i]) + 1
                /\ emitted'[i][Len(emitted'[i])] = Head(output_queue)
             \/ stream'[i].pending = << Head(output_queue) >> ]_vars

IsUnitKind(k) == k \notin {CANCELLED, ERROR}
IsOtherKind(k) == k # CANCELLED

CancelledPushedLast(i) ==
    \A k \in 1..Len(pushed[i]) : pushed[i][k].type = CANCELLED => k = Len(pushed[i])

\* C19 as claimed: a producer pushes at most one cancelled chunk, nothing after
\* it, and with the flag set at most one chunk that is not the cancelled one.
C19_AtMostOneChunkAfterCancel ==
    \A i \in Streams :
        /\ CancelledPushedLast(i)
        /\ Len(SelectSeq(thread[i].after_cancel, IsOtherKind)) <= 1

\* C19 as amended: a unit received with the flag set is discarded and the
\* cancelled chunk put in its place; a producer pushes at most one cancelled
\* chunk, nothing after it, and with the flag set at most one unit's chunk and
\* at most one error chunk.
C19_AtMostOneUnitAfterCancel ==
    /\ [] \A i \in Streams :
            /\ CancelledPushedLast(i)
            /\ Len(SelectSeq(thread[i].after_cancel, IsUnitKind)) <= 1
            /\ Len(SelectSeq(pushed[i], LAMBDA c : c.type = ERROR)) <= 1
    /\ [][ \A i \in Streams :
             ( /\ cancel_flag
               /\ thread[i].state = "running"
               /\ thread'[i].n = thread[i].n + 1 )
             => /\ thread'[i].state = "returning"
                /\ thread'[i].unit = thread[i].unit
                /\ output_queue' = Append(output_queue, TerminalChunk(CANCELLED, <<i, 0>>)) ]_vars

C19_Witness ==
    /\ thread[1].after_cancel = << MESSAGE, CANCELLED >>
    /\ Len(pushed[1]) = 3
    /\ thread[1].state = "dead"

\* The step in which the producer thread of stream i is started.
ThreadStarts(i) == thread[i].state = "unstarted" /\ thread'[i].state # "unstarted"

\* C20: a producer thread is started once, on a bridge with an interpreter,
\* in a step that leaves the flag clear and the queue empty; the flag is
\* cleared and the queue emptied wholesale in such steps only; and the flag
\* is set by /cancel only, so that a set flag seen by the producer was set
\* after its invocation began.
C20_ClearAndDrainBeforeThreadStart ==
    [][ /\ \A i \in Streams :
             /\ ThreadStarts(i) =>
                    /\ interpreter
                    /\ ~cancel_flag'
                    /\ output_queue' = << >>
                    /\ thread'[i].state = "running" /\ thread'[i].n = 0
                    /\ pushed'[i] = << >>
             /\ thread[i].state # "unstarted" => thread'[i].state # "unstarted"
        /\ (cancel_flag /\ ~cancel_flag') => \E i \in Streams : ThreadStarts(i)
        /\ (Len(output_queue') < Len(output_queue) - 1) => \E i \in Streams : ThreadStarts(i)
        /\ (~cancel_flag /\ cancel_flag') =>
               /\ cancel_reply' = "Cancelling current task..."
               /\ \A i \in Streams : ~ThreadStarts(i) ]_vars

C20_Witness ==
    /\ thread[2].state = "running" /\ thread[2].n = 0
    /\ cancel_reply = "Cancelling current task..."
    /\ ~cancel_flag
    /\ output_queue = << >>
    /\ stream[1].pc = "abandoned"
    /\ Len(pushed[1]) = 2
    /\ Len(emitted[1]) = 1
    /\ Len(emitted[1][1].content.text) = 1
    /\ stream[1].accumulated_content = << >>
    /\ stream[2].accumulated_content = << >>
    /\ emitted[2] = << >>

\* C21: a set flag stays set in every step but the start of an invocation on
\* a bridge with an interpreter, the one step that clears it; and the flag is
\* set by /cancel only.
C21_FlagClearedOnlyAtStart ==
    [][ /\ (cancel_flag /\ ~cancel_flag') =>
               /\ interpreter
               /\ \E i \in Streams : stream[i].pc = "unstarted" /\ stream'[i].pc = "while"
        /\ (\E i \in Streams : stream[i].pc = "unstarted" /\ stream'[i].pc = "while")
               => ~cancel_flag'
        /\ (~cancel_flag /\ cancel_flag') => (stream' = stream /\ thread' = thread) ]_vars

C21_Witness ==
    /\ cancel_flag
    /\ stream[1].pc = "done"
    /\ thread[1].state = "dead"
    /\ Len(emitted[1]) = 2
    /\ emitted[1][1].type = CANCELLED
    /\ engine_budget[1] = 1

IsActiveLine(c) == c.type = CONSOLE /\ c.format = "active_line"

\* The numbers, in the engine's order, of the units whose chunks ds holds.
UnitNumbers(ds) ==
    [k \in 1..Len(ds) |-> IF ds[k].type \in {ERROR, CANCELLED} /\ ds[k].keys = {"type", "content"}
                          THEN 0 ELSE ds[k].content.text[1][2]]

\* C22: no chunk on the queue, and none ever put, is a console chunk of format
\* active_line; a unit received with the flag clear is held by the thread,
\* and its next step puts exactly one chunk for it, at the tail of the queue,
\* unless the unit is an active_line console unit or has no content, when the
\* step puts nothing; so the chunks put for units are in the units' order.
C22_ProducerFilter ==
    /\ [] ( /\ \A k \in 1..Len(output_queue) : ~IsActiveLine(output_queue[k])
            /\ \A i \in Streams :
                  /\ \A k \in 1..Len(pushed[i]) : ~IsActiveLine(pushed[i][k])
                  /\ \A k, l \in 1..Len(pushed[i]) :
                        (k < l /\ UnitNumbers(pushed[i])[l] # 0)
                            => UnitNumbers(pushed[i])[k] < UnitNumbers(pushed[i])[l] )
    /\ [][ \A i \in Streams :
             /\ (~cancel_flag /\ thread'[i].n = thread[i].n + 1)
                   => (thread'[i].state = "got" /\ pushed' = pushed /\ output_queue' = output_queue)
             /\ thread[i].state = "got" /\ thread'[i] # thread[i]
                   => LET u == thread[i].unit
                          c == RawChunk(u, <<i, thread[i].n>>) IN
                      /\ thread'[i].state = "running"
                      /\ IF u.payload = "none" \/ (u.type = CONSOLE /\ u.format = "active_line")
                         THEN pushed' = pushed /\ output_queue' = output_queue
                         ELSE /\ pushed'[i] = Append(pushed[i], c)
                              /\ output_queue' = Append(output_queue, c) ]_vars

C22_Witness ==
    /\ thread[1].state = "running"
    /\ thread[1].n = 3
    /\ thread[1].unit.format = "active_line"
    /\ ~cancel_flag
    /\ Len(pushed[1]) = 1
    /\ UnitNumbers(pushed[1]) = << 2 >>

\* The tokens of the chunks stream i has taken from the queue: those of its
\* emitted blocks and of its buffer.
Handled(i) ==
    UNION ( { Tokens(emitted[i][b]) : b \in 1..Len(emitted[i]) }
            \cup { { stream[i].accumulated_content[k].text[1] } :
                       k \in 1..Len(stream[i].accumulated_content) } )

\* C23: the emptiness test is made only after the thread was found dead, and
\* when it lets the loop go the thread is dead, the queue is empty and every
\* chunk the thread put has been taken by the coalescer, once: each is in an
\* emitted block or in the buffer, and there are as many of them as were put.
C23_NoChunkLostAtLoopExit ==
    /\ [] \A i \in Streams : stream[i].pc = "while_q" => ~Alive(thread[i])
    /\ [][ \A i \in Streams :
             ( /\ stream[i].pc = "while_q"
               /\ stream'[i].pc = "final"
               /\ emitted' = emitted )
             => /\ ~Alive(thread[i])
                /\ output_queue = << >>
                /\ pushed' = pushed
                /\ \A k \in 1..Len(pushed[i]) : Tokens(pushed[i][k]) \subseteq Handled(i)
                /\ Len(Contents(emitted[i])) + Len(stream[i].accumulated_content)
                       = Len(pushed[i]) ]_vars

C23_Witness ==
    /\ stream[1].pc = "final"
    /\ Len(pushed[1]) = 3
    /\ Len(emitted[1]) = 1
    /\ Len(stream[1].accumulated_content) = 1
    /\ ~HasKind(pushed[1], CANCELLED)
    /\ thread[1].n = 3

\* The tokens of the chunks waiting on the queue.
Queued == UNION { Tokens(output_queue[k]) : k \in 1..Len(output_queue) }

\* C24: a start made while another invocation's producer thread is alive
\* clears the flag whatever was requested, empties the queue whatever it
\* holds, and leaves that thread and the other generators as they are: the
\* thread goes on putting chunks, which only the new coalescer can take.
C24_StartRacesWithLiveProducer ==
    [][ \A i \in Streams :
          ( /\ ThreadStarts(i)
            /\ \E j \in Streams : j # i /\ Alive(thread[j]) )
          => /\ ~cancel_flag'
             /\ output_queue' = << >>
             /\ pushed' = pushed
             /\ \A j \in Streams : j # i =>
                    /\ thread'[j] = thread[j]
                    /\ stream'[j] = stream[j] ]_vars

\* The three effects in one behaviour: A, left by process_message after a
\* /cancel, was never cancelled; its second chunk was discarded by B's drain;
\* its error chunk is in a block emitted by B.
C24_Witness ==
    /\ stream[1].pc = "abandoned"
    /\ cancel_reply = "Cancelling current task..."
    /\ thread[1].state = "dead"
    /\ Len(pushed[1]) = 3
    /\ ~HasKind(pushed[1], CANCELLED)
    /\ Len(emitted[1]) = 1
    /\ emitted[1][1].type = CONFIRMATION
    /\ stream[1].accumulated_content = << >>
    /\ <<1, 2>> \in Tokens(pushed[1][2])
    /\ <<1, 2>> \notin Queued \cup Handled(1) \cup Handled(2)
    /\ \E b \in 1..Len(emitted[2]) : <<1, 0>> \in Tokens(emitted[2][b])

\* The step takes the chunk at the head of the queue by the atomic path: the
\* chunk itself is the block emitted, or the one held back behind the flushed
\* buffer, and the buffer and the current type are reset.
AtomicPathTaken(i) ==
    LET c == Head(output_queue) IN
    /\ stream'[i].accumulated_content = << >>
    /\ stream'[i].current_type = None
    /\ \/ stream'[i].pending = << c >>
       \/ /\ stream'[i].pending = << >>
          /\ emitted'[i] = Append(emitted[i], c)

\* C25: a chunk other than the cancelled one is taken by the atomic path
\* exactly if its own kind is confirmation or its content is a dict.
C25_AtomicIffConfirmationOrPayload ==
    [][ \A i \in Streams :
          ( /\ InLoop(i)
            /\ output_queue # << >>
            /\ Head(output_queue).type # CANCELLED
            /\ output_queue' = Tail(output_queue) )
          => ( AtomicPathTaken(i) <=>
                 \/ Head(output_queue).type = CONFIRMATION
                 \/ Head(output_queue).content.dict ) ]_vars

\* The number of chunks a block was built from.
Fragments(block) == Len(block.content.text)

\* C26: at the loop test the buffer holds at most 10 fragments; no block is
\* built from more than 11 chunks; a chunk of the buffer's kind taken with no
\* expiry pending is flushed with the buffer exactly when it is the 11th
\* fragment; and a type change leaves a buffer of one fragment.
C26_BufferBound ==
    /\ [] \A i \in Streams :
            /\ stream[i].pc \in {"while", "while_q"} =>
                   Len(stream[i].accumulated_content) <= FlushCount
            /\ \A b \in 1..Len(emitted[i]) : Fragments(emitted[i][b]) <= FlushCount + 1
    /\ [][ \A i \in Streams :
             ( /\ InLoop(i)
               /\ output_queue # << >>
               /\ output_queue' = Tail(output_queue) )
             => LET c == Head(output_queue)
                    acc == stream[i].accumulated_content IN
                /\ ( /\ c.type = stream[i].current_type
                     /\ c.type # CONFIRMATION
                     /\ ~stream[i].overdue )
                   => IF Len(acc) = FlushCount
                      THEN /\ emitted'[i] = Append(emitted[i],
                                  BlockWithMetadata(c.type, Append(acc, c.content),
                                                    stream[i].current_metadata))
                           /\ stream'[i].accumulated_content = << >>
                      ELSE /\ emitted' = emitted
                           /\ stream'[i].accumulated_content = Append(acc, c.content)
                /\ ( /\ stream[i].current_type \notin {None, CONFIRMATION, c.type}
                     /\ c.type # CANCELLED )
                   => stream'[i].accumulated_content = << c.content >> ]_vars

C26_Witness ==
    /\ Len(emitted[1]) = 2
    /\ Fragments(emitted[1][1]) = 1
    /\ Fragments(emitted[1][2]) = FlushCount + 1
    /\ emitted[1][1].type = CONSOLE
    /\ emitted[1][2].type = MESSAGE
    /\ stream[1].late = 0
    /\ stream[1].accumulated_content = << >>

\* The kind of the chunk of stream i's thread that carried token tok.
KindOf(i, tok) == pushed[i][PushIndex(i, tok)].type

\* C27: a buffer that is not empty has a current type, the kind of every
\* chunk whose content it holds; and every emitted block has the kind of
\* every chunk whose content it holds.
C27_KindHomogeneity ==
    \A i \in Streams :
        /\ stream[i].accumulated_content # << >> => stream[i].current_type # None
        /\ \A k \in 1..Len(stream[i].accumulated_content) :
               LET tok == stream[i].accumulated_content[k].text[1] IN
               IsPushed(i, tok) /\ KindOf(i, tok) = stream[i].current_type
        /\ \A b \in 1..Len(emitted[i]) :
               \A tok \in Tokens(emitted[i][b]) :
                   Started(i) => IsPushed(i, tok) /\ KindOf(i, tok) = emitted[i][b].type

C27_Witness ==
    /\ stream[1].pc = "while"
    /\ Len(emitted[1]) = 1
    /\ emitted[1][1].type = MESSAGE
    /\ Len(stream[1].accumulated_content) = 2
    /\ stream[1].current_type = CONSOLE

\* C28: every block emitted, or about to be handed over, was built from at
\* least one chunk.
C28_NoEmptyBlock ==
    \A i \in Streams :
        /\ \A b \in 1..Len(emitted[i]) : Fragments(emitted[i][b]) >= 1
        /\ \A b \in 1..Len(stream[i].pending) : Fragments(stream[i].pending[b]) >= 1

\* A type change taken with the buffer just emptied by a threshold flush.
C28_Witness ==
    /\ stream[1].pc = "while"
    /\ Len(emitted[1]) = 1
    /\ "metadata" \in emitted[1][1].keys
    /\ Fragments(emitted[1][1]) = 2
    /\ Len(stream[1].accumulated_content) = 1
    /\ stream[1].current_type # emitted[1][1].type
    /\ Len(pushed[1]) = 3
    /\ output_queue = << >>

\* C29: a step in which the queue read raises leaves the current type, the
\* buffer, the queue and the emitted blocks as they are and puts the
\* generator back at the loop test; and a stream that met such faults and
\* ended without being cancelled emitted every chunk put, with an error
\* block only if the producer's engine call raised.
C29_QueueFaultIsRetried ==
    /\ [][ \A i \in Streams :
             stream'[i].faults # stream[i].faults
             => /\ stream'[i].current_type = stream[i].current_type
                /\ stream'[i].current_metadata = stream[i].current_metadata
                /\ stream'[i].accumulated_content = stream[i].accumulated_content
                /\ stream'[i].overdue = stream[i].overdue
                /\ stream'[i].pc = "while"
                /\ emitted' = emitted
                /\ output_queue' = output_queue
                /\ thread' = thread ]_vars
    /\ [] \A i \in Streams :
            ( /\ stream[i].pc = "done"
              /\ stream[i].faults > 0
              /\ ~HasKind(pushed[i], CANCELLED) )
            => /\ \A k \in 1..Len(pushed[i]) :
                      \E b \in 1..Len(emitted[i]) : Tokens(pushed[i][k]) \subseteq Tokens(emitted[i][b])
               /\ Len(Contents(emitted[i])) = Len(pushed[i])
               /\ HasKind(emitted[i], ERROR) => thread[i].raised

C29_Witness ==
    /\ stream[1].pc = "done"
    /\ stream[1].faults = MaxFaults
    /\ Len(pushed[1]) = 2
    /\ Len(emitted[1]) = 1
    /\ Fragments(emitted[1][1]) = 2
    /\ ~cancel_flag

\* C30: a coroutine that found the queue not empty finds an item when it
\* calls get, whatever the producer threads and the other coroutines do: the
\* get never waits for its timeout; the step that calls get takes the head of
\* the queue; and with the queue empty a coalescer inside its loop does
\* nothing but wait for the next test.
C30_GetNeverBlocks ==
    /\ [] \A i \in Streams :
            /\ stream[i].pc = "get" => output_queue # << >>
            /\ stream[i].faults = 0
    /\ [][ \A i \in Streams :
             /\ (stream[i].pc = "get" /\ stream'[i].pc # "get")
                   => output_queue # << >> /\ output_queue' = Tail(output_queue)
             /\ (output_queue = << >> /\ stream[i].pc = "while" /\ Alive(thread[i]))
                   => stream'[i] = stream[i] /\ emitted'[i] = emitted[i] ]_vars

\* Both streams in flight: B has taken a chunk of A's producer, and A is
\* between its test and its get with a chunk of B's producer on the queue.
C30_Witness ==
    /\ stream[1].pc = "get"
    /\ stream[2].pc = "while"
    /\ Alive(thread[1])
    /\ Len(emitted[2]) = 1
    /\ <<1, 1>> \in Tokens(emitted[2][1])
    /\ Len(output_queue) = 1
    /\ <<2, 1>> \in Tokens(output_queue[1])

\* The producer of stream i has put its cancelled chunk or its error chunk.
PutTerminal(i) == HasKind(pushed[i], CANCELLED) \/ HasKind(pushed[i], ERROR)

\* C31: once the loop is left, by its test or by a cancelled chunk, the
\* invocation completes if its consumer keeps iterating, whatever the
\* producer thread does: the join step can be taken with the thread alive or
\* dead, and changes nothing of the bridge; and a producer that has put a
\* cancelled or error chunk puts nothing more, takes no further unit and, if
\* it gets to run, is dead in the end.
C31_JoinIsBoundedAndProducerStops ==
    /\ [] (stream[1].pc = "join" => ENABLED << ThreadJoin(1) >>_vars)
    /\ (stream[1].pc \in {"final", "join"}) ~> (stream[1].pc = "done")
    /\ [][ (stream[1].pc = "join" /\ stream'[1].pc # "join") =>
              /\ stream'[1].pc = "done"
              /\ UNCHANGED << thread, output_queue, cancel_flag, emitted >> ]_vars
    /\ [][ PutTerminal(1) =>
              /\ pushed' = pushed
              /\ thread'[1].n = thread[1].n
              /\ thread'[1].state \in {"returning", "dead"} ]_vars
    /\ WF_vars(ThreadExit(1)) => (PutTerminal(1) ~> <>[](thread[1].state = "dead"))

\* The invocation is over, after a cancelled block, with its thread alive.
C31_Witness ==
    /\ stream[1].pc = "done"
    /\ Alive(thread[1])
    /\ HasKind(emitted[1], CANCELLED)
    /\ Len(emitted[1]) = 2

\* Stream i is the invocation made last.
IsLatest(i) ==
    /\ stream[i].pc # "unstarted"
    /\ \A j \in Streams : j > i => stream[j].pc = "unstarted"

IsTerminal(block) == block.type \in {ERROR, CANCELLED}

\* process_message no longer iterates the generator of stream i.
Stopped(i) == stream[i].pc \in {"abandoned", "failed"}

\* C33: process_message receives no block after the first error or cancelled
\* block of its stream, which it stops at; once its message is no longer in
\* active_messages it stops at the next block it receives; and once it has
\* stopped, the generator is not resumed and no block is received from it.
C33_ConsumerStopsAtTerminalBlock ==
    [][ \A i \in Streams :
          /\ ( /\ consumer'[i] = "process_message"
               /\ Len(emitted'[i]) > Len(emitted[i]) )
             => /\ \A b \in 1..Len(emitted[i]) : ~IsTerminal(emitted[i][b])
                /\ Len(emitted'[i]) = Len(emitted[i]) + 1
                /\ IsTerminal(emitted'[i][Len(emitted'[i])]) =>
                       (stream'[i].pc = "abandoned" /\ i \notin active_messages')
                /\ (Active(i) /\ i \notin active_messages) => stream'[i].pc = "abandoned"
          /\ Stopped(i) => (stream'[i] = stream[i] /\ emitted'[i] = emitted[i]) ]_vars

\* process_message has stopped at the error block the final flush yielded,
\* with the generator's join still to come.
C33_Witness ==
    /\ consumer[1] = "process_message"
    /\ stream[1].pc = "abandoned"
    /\ Len(emitted[1]) = 2
    /\ emitted[1][1].type = MESSAGE
    /\ emitted[1][2].type = ERROR
    /\ thread[1].raised
    /\ ~cancel_flag
    /\ active_messages = {}

\* C34: the conversation history is replaced (by load_context or
\* reset_conversation) only in steps taken with no producer thread alive.
C34_HistoryReplacedOnlyWhenIdle ==
    [][ messages' # messages => \A i \in Streams : ~Alive(thread[i]) ]_vars

\* The step in which stream i is invoked.
Invoked(i) == stream[i].pc = "unstarted" /\ stream'[i].pc # "unstarted"

\* C35: an invocation on a bridge without interpreter leaves the flag, the
\* queue, the threads, the interpreter and the history as they are, and is
\* over when its one block has been received.
C35_DegradedInvocationChangesNothing ==
    [][ \A i \in Streams :
          (Invoked(i) /\ ~interpreter) =>
              /\ cancel_flag' = cancel_flag
              /\ output_queue' = output_queue
              /\ thread' = thread
              /\ ~Started(i)'
              /\ interpreter' = interpreter
              /\ messages' = messages
              /\ ~Active(i)' ]_vars

\* Invocations by both consumers made and over on a bridge without
\* interpreter whose flag is set, and the last one still to come.
C35_Witness ==
    /\ ~interpreter
    /\ cancel_flag
    /\ consumer[1] = "process_message"
    /\ consumer[2] = "exhaustive"
    /\ \A i \in Streams : i < MaxInvocations => stream[i].pc \in {"done", "abandoned"}
    /\ stream[MaxInvocations].pc = "unstarted"
    /\ \A i \in Streams : thread[i].state = "unstarted"

\* C36: a message is in active_messages only while process_message is
\* consuming its stream: once process_message has finished, by whatever
\* path, its message is not in active_messages.
C36_ActiveOnlyWhileConsumed ==
    \A i \in Streams :
        i \in active_messages => (consumer[i] = "process_message" /\ Active(i))

====
